---- MODULE Spec2Model ----
(***************************************************************************)
(* Link Click Tracker (src/link_tracker.py): a Flask application that      *)
(* records one click per client IP in click_data.json, mirrors the log to  *)
(* click_data.csv and redirects the visitor to TARGET_URL.                 *)
(*                                                                         *)
(* Strings the code takes apart (header values, addresses) are sequences   *)
(* of one-character strings; strings it only copies are TLA+ strings.      *)
(* Each request is served by its own thread of control; a handler is split *)
(* into steps at its accesses to the two files. A file is what a reader    *)
(* finds in it: nothing (absent), zero bytes after open(path, 'w'), the    *)
(* document a writer flushed, or bytes no parser accepts. datetime.now()   *)
(* is a clock that every call finds advanced.                              *)
(***************************************************************************)
EXTENDS Integers, Sequences, FiniteSets, TLC

\* ------------------------------------------------------------------ bounds
\* requests served one after another (SpecSeq, SpecCrash)
MaxRequests == 3
\* requests served concurrently (Spec)
MaxThreads == 2
MaxHeaderLen == 3
MaxCrashes == 2

RequestIds == 1..MaxRequests
ThreadIds == 1..MaxThreads

\* ----------------------------------------------------------- configuration
TARGET_URL == "https://developer.huaweicloud.com/intl/en-us/activity/c64bd713260a42e7872e4138a2aef2db"

XFF == "X-Forwarded-For"
XRI == "X-Real-IP"
UAH == "User-Agent"

VARIABLES
    jsonFile,     \* click_data.json: [st, clicks]
    csvFile,      \* click_data.csv:  [st, rows]
    clock,        \* the wall clock datetime.now() reads
    crashes,      \* how often the process has stopped
    killed,       \* the requests that were in flight when the process stopped
    pc,           \* each request's position in its handler
    request,      \* each request: [path, headers, remote_addr]
    client_ip,    \* track_click's local client_ip
    user_agent,   \* track_click's local user_agent
    timestamp,    \* track_click's local timestamp
    data,         \* the handler's local data (what load_data returned, then mutated)
    response,     \* what the handler returned
    before,       \* history: the two files as they were when the handler was entered
    overlapped    \* history: the requests whose save_data overlapped another save_data

vars == <<jsonFile, csvFile, clock, crashes, killed, pc, request, client_ip, user_agent,
          timestamp, data, response, before, overlapped>>

\* ------------------------------------------------------------------ strings
Space == " "
Comma == ","

RECURSIVE LStrip(_)
LStrip(s) == IF s # <<>> /\ Head(s) = Space THEN LStrip(Tail(s)) ELSE s

RECURSIVE RStrip(_)
RStrip(s) ==
    IF s # <<>> /\ s[Len(s)] = Space THEN RStrip(SubSeq(s, 1, Len(s) - 1)) ELSE s

\* str.strip()
Strip(s) == RStrip(LStrip(s))

\* str.split(',')[0]: everything before the first comma
RECURSIVE SplitFirst(_)
SplitFirst(s) ==
    IF s = <<>> \/ Head(s) = Comma THEN <<>> ELSE <<Head(s)>> \o SplitFirst(Tail(s))

\* -------------------------------------------------------------- the request
\* request.headers.get(name): the value, or the default when the header is absent
HeaderGet(headers, name, default) ==
    IF name \in DOMAIN headers THEN headers[name] ELSE default

\* Python's truth value of request.headers.get(name): None and "" are false
HeaderTruthy(headers, name) ==
    name \in DOMAIN headers /\ headers[name] # <<>>

\* mutant: X-Real-IP is consulted before X-Forwarded-For
get_client_ip_RealIpFirst(req) ==
    IF HeaderTruthy(req.headers, XRI)
    THEN req.headers[XRI]
    ELSE IF HeaderTruthy(req.headers, XFF)
         THEN Strip(SplitFirst(req.headers[XFF]))
         ELSE req.remote_addr

get_client_ip(req) ==
    IF HeaderTruthy(req.headers, XFF)
    THEN Strip(SplitFirst(req.headers[XFF]))
    ELSE IF HeaderTruthy(req.headers, XRI)
         THEN req.headers[XRI]
         ELSE req.remote_addr

\* ------------------------------------------------------------------ the store
EmptyLog == [shape |-> "log", clicks |-> <<>>]

AbsentFile == [st |-> "absent", clicks |-> <<>>]
AbsentCsv == [st |-> "absent", rows |-> <<>>]

\* open(path, 'w'): the file exists and holds zero bytes
Truncated(file) == [st |-> "empty", clicks |-> <<>>]

\* mutant: json.load's JSONDecodeError is not caught
load_data_Uncaught(file) ==
    CASE file.st = "absent" -> EmptyLog
      [] file.st = "doc" -> [shape |-> "log", clicks |-> file.clicks]
      [] file.st = "foreign" -> [shape |-> "foreign", clicks |-> <<>>]
      [] OTHER -> [shape |-> "raised", clicks |-> <<>>]

\* lines 22-30, by what click_data.json holds:
\*   st = "absent"       os.path.exists is false
\*   st = "empty"        zero bytes: json.load raises JSONDecodeError
\*   st = "garbage"      text that is not JSON: JSONDecodeError
\*   st = "doc"          {"clicks": [...]}
\*   st = "foreign"      JSON of another shape ({}, [], 5): returned as it is
\*   st = "undecodable"  bytes that are no text: UnicodeDecodeError, not caught
load_data(file) ==
    CASE file.st = "absent" -> EmptyLog
      [] file.st \in {"empty", "garbage"} -> EmptyLog
      [] file.st = "doc" -> [shape |-> "log", clicks |-> file.clicks]
      [] file.st = "foreign" -> [shape |-> "foreign", clicks |-> <<>>]
      [] OTHER -> [shape |-> "raised", clicks |-> <<>>]

\* load_data returned, and data['clicks'] can be evaluated and iterated
HasClicks(d) == d.shape = "log"

\* mutant: the user agent is looked up under a key no record has
CsvRow_AgentMissed(click) ==
    <<click.ip, click.timestamp,
      IF "useragent" \in DOMAIN click THEN click.useragent ELSE "N/A">>

\* line 43: writer.writerow([click['ip'], click['timestamp'],
\*                           click.get('user_agent', 'N/A')])
CsvRow(click) ==
    <<click.ip, click.timestamp,
      IF "user_agent" \in DOMAIN click THEN click.user_agent ELSE "N/A">>

CsvHeader == <<"IP Address", "Timestamp", "User Agent">>

CsvOf(clicks) == <<CsvHeader>> \o [i \in 1..Len(clicks) |-> CsvRow(clicks[i])]

\* mutant: the membership test is left out
IpRecorded_Never(ip, clicks) == FALSE

\* mutant: only the newest record is compared
IpRecorded_LastOnly(ip, clicks) == clicks # <<>> /\ clicks[Len(clicks)].ip = ip

\* lines 69-71: client_ip in existing_ips
IpRecorded(ip, clicks) == \E i \in 1..Len(clicks) : clicks[i].ip = ip

\* mutant: the new record is put first
Appended_AtFront(clicks, click) == <<click>> \o clicks

\* line 78: data['clicks'].append(click_record)
Appended(clicks, click) == Append(clicks, click)


\* mutant: only the newest record is written
JsonDoc_NewestOnly(d) ==
    [st |-> "doc",
     clicks |-> IF d.clicks = <<>> THEN <<>> ELSE <<d.clicks[Len(d.clicks)]>>]

\* line 36: json.dump(data, f, indent=2) writes the whole of data
JsonDoc(d) == [st |-> "doc", clicks |-> d.clicks]
JsonGarbage == [st |-> "garbage", clicks |-> <<>>]
CsvDoc(d) == [st |-> "rows", rows |-> CsvOf(d.clicks)]
CsvGarbage == [st |-> "garbage", rows |-> <<>>]

\* mutant: the newest record is added to what the file holds
Written_Merged(file, d) ==
    [st |-> "doc",
     clicks |-> load_data(file).clicks \o
                (IF d.clicks = <<>> THEN <<>> ELSE <<d.clicks[Len(d.clicks)]>>)]

\* lines 35-36: what the writer puts into the file it opened, whatever the file holds
Written(file, d) == JsonDoc(d)

\* What a file holds once a writer that opened it with 'w' flushes `new` at offset 0
\* and closes. Nobody wrote since the writer's own truncation: exactly `new`.
\* Another writer flushed in between (unsynchronised writers): `new` when it is at
\* least as long as what is there, and otherwise `new` followed by the tail of the
\* other content, which no parser accepts.
Flushed(file, new, garbage) ==
    IF file.st = "empty" THEN {new} ELSE {new, garbage}

\* ------------------------------------------------------------------- inputs
NoRequest == [path |-> "", headers |-> <<>>, remote_addr |-> <<>>]

TrackRequests ==
    { [path |-> "/track",
       headers |-> (XFF :> <<"1", ",", " ", "2">>) @@ (XRI :> <<"9">>)
                   @@ (UAH :> "curl/8.0"),
       remote_addr |-> <<"7">>],
      [path |-> "/track",
       headers |-> (XRI :> <<"2">>),
       remote_addr |-> <<"7">>],
      [path |-> "/track",
       headers |-> (UAH :> "Mozilla/5.0"),
       remote_addr |-> <<"1">>] }

ViewRequest(path) == [path |-> path, headers |-> <<>>, remote_addr |-> <<"7">>]

\* ------------------------------------------------------------------ schedule
InFlight(r) == r \notin killed /\ pc[r] \notin {"idle", "done"}

\* request slots are taken in order
Arrives(r) == pc[r] = "idle" /\ (IF r = 1 THEN TRUE ELSE pc[r - 1] # "idle")

InitWith(json, csv) ==
    /\ jsonFile = json
    /\ csvFile = csv
    /\ clock = 1
    /\ crashes = 0
    /\ killed = {}
    /\ pc = [r \in RequestIds |-> "idle"]
    /\ request = [r \in RequestIds |-> NoRequest]
    /\ client_ip = [r \in RequestIds |-> <<>>]
    /\ user_agent = [r \in RequestIds |-> ""]
    /\ timestamp = [r \in RequestIds |-> 0]
    /\ data = [r \in RequestIds |-> EmptyLog]
    /\ response = [r \in RequestIds |-> [status |-> 0]]
    /\ before = [r \in RequestIds |-> [json |-> AbsentFile, csv |-> AbsentCsv]]
    /\ overlapped = {}

\* a fresh installation, where neither file exists, or a store holding an empty log
Init ==
    \E d \in {EmptyLog} :
        \E files \in {<<AbsentFile, AbsentCsv>>, <<JsonDoc(d), CsvDoc(d)>>} :
            InitWith(files[1], files[2])

\* ------------------------------------------------------------- track_click
Redirect == [status |-> 302, location |-> TARGET_URL]
ServerError == [status |-> 500]

\* mutant: only a newly recorded visitor is redirected
TrackResponse_OnlyWhenNew(recorded) ==
    IF recorded THEN Redirect ELSE [status |-> 200, location |-> ""]

\* line 85: redirect(TARGET_URL, code=302), on both branches of line 71
TrackResponse(recorded) == Redirect

\* lines 61-63: client_ip, user_agent, timestamp
TrackBegin(r, req) ==
    /\ Arrives(r)
    /\ req.path = "/track"
    /\ request' = [request EXCEPT ![r] = req]
    /\ client_ip' = [client_ip EXCEPT ![r] = get_client_ip(req)]
    /\ user_agent' = [user_agent EXCEPT ![r] = HeaderGet(req.headers, UAH, "Unknown")]
    /\ timestamp' = [timestamp EXCEPT ![r] = clock]
    /\ clock' = clock + 1
    /\ before' = [before EXCEPT ![r] = [json |-> jsonFile, csv |-> csvFile]]
    /\ pc' = [pc EXCEPT ![r] = "load"]
    /\ UNCHANGED <<jsonFile, csvFile, crashes, killed, data, response, overlapped>>

click_record(r) ==
    [ip |-> client_ip[r], timestamp |-> timestamp[r], user_agent |-> user_agent[r]]

\* lines 66-78, and lines 81-85 for a returning visitor
TrackLoad(r) ==
    /\ pc[r] = "load"
    /\ r \notin killed
    /\ LET d == load_data(jsonFile) IN
         IF ~HasClicks(d)
         THEN /\ data' = [data EXCEPT ![r] = d]
              /\ response' = [response EXCEPT ![r] = ServerError]
              /\ pc' = [pc EXCEPT ![r] = "done"]
         ELSE IF IpRecorded(client_ip[r], d.clicks)
         THEN /\ data' = [data EXCEPT ![r] = d]
              /\ response' = [response EXCEPT ![r] = TrackResponse(FALSE)]
              /\ pc' = [pc EXCEPT ![r] = "done"]
         ELSE /\ data' = [data EXCEPT ![r] =
                            [d EXCEPT !.clicks = Appended(@, click_record(r))]]
              /\ response' = response
              /\ pc' = [pc EXCEPT ![r] = "json_open"]
    /\ UNCHANGED <<jsonFile, csvFile, clock, crashes, killed, request, client_ip,
                   user_agent, timestamp, before, overlapped>>

InSave(r) == r \notin killed /\ pc[r] \in {"json_write", "csv_open", "csv_write"}

\* save_data line 35: open(DATA_FILE, 'w')
SaveOpenJson(r) ==
    /\ pc[r] = "json_open"
    /\ r \notin killed
    /\ jsonFile' = Truncated(jsonFile)
    /\ pc' = [pc EXCEPT ![r] = "json_write"]
    /\ overlapped' = IF \E q \in RequestIds : q # r /\ InSave(q)
                     THEN overlapped \cup {r} \cup {q \in RequestIds : InSave(q)}
                     ELSE overlapped
    /\ UNCHANGED <<csvFile, clock, crashes, killed, request, client_ip, user_agent,
                   timestamp, data, response, before>>

\* save_data line 36: json.dump(data, f, indent=2), and the file is closed
SaveWriteJson(r) ==
    /\ pc[r] = "json_write"
    /\ r \notin killed
    /\ jsonFile' \in Flushed(jsonFile, Written(jsonFile, data[r]), JsonGarbage)
    /\ pc' = [pc EXCEPT ![r] = "csv_open"]
    /\ UNCHANGED <<csvFile, clock, crashes, killed, request, client_ip, user_agent,
                   timestamp, data, response, before, overlapped>>

\* save_data line 39: open(CSV_FILE, 'w', newline='')
SaveOpenCsv(r) ==
    /\ pc[r] = "csv_open"
    /\ r \notin killed
    /\ csvFile' = [csvFile EXCEPT !.st = "empty", !.rows = <<>>]
    /\ pc' = [pc EXCEPT ![r] = "csv_write"]
    /\ UNCHANGED <<jsonFile, clock, crashes, killed, request, client_ip, user_agent,
                   timestamp, data, response, before, overlapped>>

\* save_data lines 40-43, the file is closed; track_click lines 80-85
SaveWriteCsv(r) ==
    /\ pc[r] = "csv_write"
    /\ r \notin killed
    /\ csvFile' \in Flushed(csvFile, CsvDoc(data[r]), CsvGarbage)
    /\ response' = [response EXCEPT ![r] = TrackResponse(TRUE)]
    /\ pc' = [pc EXCEPT ![r] = "done"]
    /\ UNCHANGED <<jsonFile, clock, crashes, killed, request, client_ip, user_agent,
                   timestamp, data, before, overlapped>>

\* ---------------------------------------------------------- reporting views
\* show_stats, lines 88-174
ShowStats(r) ==
    /\ Arrives(r)
    /\ request' = [request EXCEPT ![r] = ViewRequest("/stats")]
    /\ before' = [before EXCEPT ![r] = [json |-> jsonFile, csv |-> csvFile]]
    /\ LET d == load_data(jsonFile) IN
         /\ data' = [data EXCEPT ![r] = d]
         /\ response' = [response EXCEPT ![r] =
              IF ~HasClicks(d) THEN ServerError
              ELSE [status |-> 200, total_unique |-> Len(d.clicks),
                    clicks |-> d.clicks, target_url |-> TARGET_URL]]
    /\ pc' = [pc EXCEPT ![r] = "done"]
    /\ UNCHANGED <<jsonFile, csvFile, clock, crashes, killed, client_ip, user_agent,
                   timestamp, overlapped>>

\* mutant: the total is taken from the CSV's lines, header included
ApiBody_CountsHeader(d) ==
    [status |-> 200, total_unique_visitors |-> Len(CsvOf(d.clicks)),
     clicks |-> d.clicks, target_url |-> TARGET_URL]

\* api_stats, lines 177-184: the JSON body
ApiBody(d) ==
    [status |-> 200, total_unique_visitors |-> Len(d.clicks),
     clicks |-> d.clicks, target_url |-> TARGET_URL]

ApiStats(r) ==
    /\ Arrives(r)
    /\ request' = [request EXCEPT ![r] = ViewRequest("/api/stats")]
    /\ before' = [before EXCEPT ![r] = [json |-> jsonFile, csv |-> csvFile]]
    /\ LET d == load_data(jsonFile) IN
         /\ data' = [data EXCEPT ![r] = d]
         /\ response' = [response EXCEPT ![r] =
              IF ~HasClicks(d) THEN ServerError ELSE ApiBody(d)]
    /\ pc' = [pc EXCEPT ![r] = "done"]
    /\ UNCHANGED <<jsonFile, csvFile, clock, crashes, killed, client_ip, user_agent,
                   timestamp, overlapped>>

\* home, lines 187-233: a static page
Home(r) ==
    /\ Arrives(r)
    /\ request' = [request EXCEPT ![r] = ViewRequest("/")]
    /\ before' = [before EXCEPT ![r] = [json |-> jsonFile, csv |-> csvFile]]
    /\ response' = [response EXCEPT ![r] = [status |-> 200]]
    /\ pc' = [pc EXCEPT ![r] = "done"]
    /\ UNCHANGED <<jsonFile, csvFile, clock, crashes, killed, client_ip, user_agent,
                   timestamp, data, overlapped>>

\* ------------------------------------------------------------------ the process
\* The process stops (killed, power loss): the requests in flight never complete,
\* the files stay as they are, and a restarted process serves the later requests.
Crash ==
    /\ crashes < MaxCrashes
    /\ \E r \in RequestIds : InFlight(r)
    /\ crashes' = crashes + 1
    /\ killed' = killed \cup {r \in RequestIds : InFlight(r)}
    /\ UNCHANGED <<jsonFile, csvFile, clock, pc, request, client_ip, user_agent,
                   timestamp, data, response, before, overlapped>>

Step(r) ==
    \/ \E req \in TrackRequests : TrackBegin(r, req)
    \/ TrackLoad(r)
    \/ SaveOpenJson(r)
    \/ SaveWriteJson(r)
    \/ SaveOpenCsv(r)
    \/ SaveWriteCsv(r)
    \/ ShowStats(r)
    \/ ApiStats(r)
    \/ Home(r)

\* requests served concurrently, one thread each, and the process may stop
Next ==
    \/ \E r \in ThreadIds : Step(r)
    \/ Crash

Spec == Init /\ [][Next]_vars

\* one request at a time: a request is taken up only when none is in flight
Alone(r) == \A q \in RequestIds : q # r => ~InFlight(q)

SeqNext == \E r \in RequestIds : Alone(r) /\ Step(r)

SpecSeq == Init /\ [][SeqNext]_vars

\* one request at a time, and the process may stop at any step
SpecCrash == Init /\ [][SeqNext \/ Crash]_vars


\* ------------------------------------------------------------- the resolver
HeaderChars == {"1", "2", Comma, Space}

HeaderStrings == UNION {[1..n -> HeaderChars] : n \in 0..MaxHeaderLen}

RealIpStrings == {<<>>, <<"9">>, <<Space, "9">>}

NoHeaders == [n \in {} |-> <<>>]

WideTrackRequests ==
    { [path |-> "/track", headers |-> f @@ g, remote_addr |-> <<"7">>] :
        f \in {NoHeaders} \cup {XFF :> v : v \in HeaderStrings},
        g \in {NoHeaders} \cup {XRI :> v : v \in RealIpStrings} }

\* get_client_ip on every combination of short header values
NextResolver == \E req \in WideTrackRequests \cup TrackRequests : TrackBegin(1, req)

SpecResolver == Init /\ [][NextResolver]_vars

\* What the resolver is to return, said without the code's recursion: the part of s
\* before its first comma, and that part between its first and last non-blank.
FirstElement(s) ==
    LET commas == {i \in 1..Len(s) : s[i] = Comma}
        stop == IF commas = {} THEN Len(s) + 1
                ELSE CHOOSE i \in commas : \A j \in commas : i <= j
    IN  SubSeq(s, 1, stop - 1)

Trimmed(s) ==
    LET solid == {i \in 1..Len(s) : s[i] # Space}
    IN  IF solid = {} THEN <<>>
        ELSE SubSeq(s, CHOOSE i \in solid : \A j \in solid : i <= j,
                       CHOOSE i \in solid : \A j \in solid : i >= j)

Resolved(r) == pc[r] # "idle" /\ request[r].path = "/track"

\* C4 as stated: the first element of X-Forwarded-For, trimmed, whenever that header
\* is present; otherwise X-Real-IP verbatim whenever that header is present;
\* otherwise the peer address.
C4_PresentHeaderWins ==
    \A r \in RequestIds : Resolved(r) =>
        LET h == request[r].headers IN
        client_ip[r] = IF XFF \in DOMAIN h THEN Trimmed(FirstElement(h[XFF]))
                       ELSE IF XRI \in DOMAIN h THEN h[XRI]
                       ELSE request[r].remote_addr

\* C4 amended: a header counts only when it is present with a non-empty value. The
\* resolver returns the trimmed first element of a non-empty X-Forwarded-For;
\* otherwise a non-empty X-Real-IP verbatim; otherwise the peer address.
C4_NonEmptyHeaderWins ==
    \A r \in RequestIds : Resolved(r) =>
        LET h == request[r].headers
            has(n) == n \in DOMAIN h /\ Len(h[n]) > 0
        IN  client_ip[r] = IF has(XFF) THEN Trimmed(FirstElement(h[XFF]))
                           ELSE IF has(XRI) THEN h[XRI]
                           ELSE request[r].remote_addr

\* C4 witness: both headers carry values, X-Forwarded-For lists two blank-padded
\* addresses, and the resolver has returned the first of them, trimmed.
C4_Witness ==
    \E r \in RequestIds :
        /\ Resolved(r)
        /\ XFF \in DOMAIN request[r].headers
        /\ request[r].headers[XFF] = <<"1", Comma, Space, "2">>
        /\ XRI \in DOMAIN request[r].headers
        /\ request[r].headers[XRI] = <<"9">>
        /\ client_ip[r] = <<"1">>


\* --------------------------------------------------- sequential track calls
TrackDone(r) == request[r].path = "/track" /\ pc[r] = "done" /\ r \notin killed

Quiescent == \A r \in RequestIds : ~InFlight(r)

\* the /track call that was the first from its address
FirstCall(r) ==
    /\ TrackDone(r)
    /\ \A q \in 1..(r - 1) : TrackDone(q) => client_ip[q] # client_ip[r]

\* C1: after any number of /track calls served one after another, the persisted JSON
\* log holds exactly one record per distinct resolved IP, K records for K distinct
\* IPs, and each record carries the timestamp and the user agent of the first call
\* made from its IP.
C1_OneRecordPerIp ==
    Quiescent =>
        LET log == IF jsonFile.st = "doc" THEN jsonFile.clicks ELSE <<>>
            ips == {client_ip[r] : r \in {q \in RequestIds : TrackDone(q)}}
        IN  /\ Len(log) = Cardinality(ips)
            /\ \A r \in RequestIds : FirstCall(r) =>
                 \E i \in 1..Len(log) :
                    /\ log[i].ip = client_ip[r]
                    /\ log[i].timestamp = timestamp[r]
                    /\ log[i].user_agent = user_agent[r]
                    /\ \A j \in 1..Len(log) : log[j].ip = client_ip[r] => j = i

\* C1 witness: three calls from two distinct IPs have been served, the repeated IP
\* with another user agent, and the log holds two records.
C1_Witness ==
    /\ Quiescent
    /\ \A r \in 1..3 : TrackDone(r)
    /\ client_ip[1] = client_ip[3]
    /\ user_agent[1] # user_agent[3]
    /\ client_ip[1] # client_ip[2]
    /\ jsonFile.st = "doc"
    /\ Len(jsonFile.clicks) = 2

\* the request served last
Latest(r) == pc[r] # "idle" /\ (IF r = MaxRequests THEN TRUE ELSE pc[r + 1] = "idle")

\* C9: a /track call served on its own leaves both files exactly as they were when its
\* IP was already recorded, and otherwise leaves the log as it was with one new
\* record, its own, appended at the end.
C9_AppendOnly ==
    \A r \in RequestIds : (TrackDone(r) /\ Latest(r)) =>
        LET old == IF before[r].json.st = "doc" THEN before[r].json.clicks ELSE <<>>
        IN  IF \E i \in 1..Len(old) : old[i].ip = client_ip[r]
            THEN jsonFile = before[r].json /\ csvFile = before[r].csv
            ELSE /\ jsonFile.st = "doc"
                 /\ jsonFile.clicks =
                      old \o <<[ip |-> client_ip[r], timestamp |-> timestamp[r],
                                user_agent |-> user_agent[r]]>>

\* C9 witness: the second call recorded a new IP behind the first record, and the
\* third call, from a recorded IP, has been served.
C9_Witness ==
    /\ \A r \in 1..3 : TrackDone(r)
    /\ Latest(3)
    /\ Len(before[2].json.clicks) = 1
    /\ Len(before[3].json.clicks) = 2
    /\ jsonFile = before[3].json
    /\ csvFile = before[3].csv


\* ------------------------------------------------------ concurrent requests
\* the record a /track request appended to its own copy of the log
Recorded(r) ==
    /\ request[r].path = "/track"
    /\ pc[r] \in {"json_open", "json_write", "csv_open", "csv_write", "done"}
    /\ data[r].clicks # <<>>
    /\ data[r].clicks[Len(data[r].clicks)] = click_record(r)

\* C2: every /track call that returns answers 302 to TARGET_URL, whether it recorded
\* its IP or found it recorded, and however many records the store holds.
C2_AlwaysRedirects ==
    \A r \in RequestIds : TrackDone(r) =>
        /\ response[r].status = 302
        /\ response[r].location = TARGET_URL

\* C2 witness: two calls from one IP have returned, the first having recorded the IP
\* and the second having found it recorded, with the same answer.
C2_Witness ==
    /\ TrackDone(1) /\ TrackDone(2)
    /\ client_ip[1] = client_ip[2]
    /\ Recorded(1) /\ ~Recorded(2)
    /\ Len(data[2].clicks) = 1
    /\ response[1] = response[2]
    /\ response[1].status = 302

\* the records the JSON file holds, none when it is absent or unreadable
Records(file) == IF file.st = "doc" THEN file.clicks ELSE <<>>

ApiDone(r) == request[r].path = "/api/stats" /\ pc[r] = "done"

\* C6: the total_unique_visitors /api/stats returns is the number of records the JSON
\* file held when the handler read it, and the length of the clicks list it returns.
C6_TotalIsLogLength ==
    \A r \in RequestIds : ApiDone(r) =>
        /\ response[r].status = 200
        /\ response[r].total_unique_visitors = Len(Records(before[r].json))
        /\ response[r].total_unique_visitors = Len(response[r].clicks)
        /\ response[r].clicks = Records(before[r].json)

\* C6 witness: /api/stats has answered over a store that holds a record.
C6_Witness ==
    \E r \in RequestIds :
        /\ ApiDone(r)
        /\ before[r].json.st = "doc"
        /\ response[r].total_unique_visitors = 1


\* how many records of a log carry the address ip
CountIp(clicks, ip) == Cardinality({i \in 1..Len(clicks) : clicks[i].ip = ip})

\* two /track requests from one address that both found it unrecorded, both appended
\* a record to the log they had loaded, and both returned
BothAppended(r, q) ==
    /\ r # q
    /\ TrackDone(r) /\ TrackDone(q)
    /\ client_ip[r] = client_ip[q]
    /\ Recorded(r) /\ Recorded(q)

\* C7 as stated: once two concurrent /track requests from the same unrecorded IP have
\* both observed it as absent and both appended, the persisted log holds two records
\* with that IP.
C7_RaceLeavesTwoRecords ==
    \A r, q \in RequestIds :
        BothAppended(r, q) => CountIp(Records(jsonFile), client_ip[r]) >= 2

\* C7 amended: each request appends to the copy of the log it loaded itself, and a
\* save replaces the whole file; no log, in memory or persisted, ever holds two
\* records with the same IP, so after such a race the file holds at most one.
C7_NeverTwoRecordsOfOneIp ==
    /\ \A i, j \in 1..Len(Records(jsonFile)) :
          Records(jsonFile)[i].ip = Records(jsonFile)[j].ip => i = j
    /\ \A r \in RequestIds : \A i, j \in 1..Len(data[r].clicks) :
          data[r].clicks[i].ip = data[r].clicks[j].ip => i = j

\* C7 witness: the race has happened, and the file holds one record with the IP, the
\* record of the request that wrote last.
C7_Witness ==
    /\ BothAppended(1, 2)
    /\ Len(data[1].clicks) = 1 /\ Len(data[2].clicks) = 1
    /\ jsonFile.st = "doc"
    /\ jsonFile.clicks = <<click_record(1)>>
    /\ CountIp(jsonFile.clicks, client_ip[1]) = 1

\* two /track requests from different addresses, each of which appended its record to
\* a log that lacked the other's address
Unaware(r, q) ==
    /\ r # q
    /\ Recorded(r) /\ Recorded(q)
    /\ client_ip[r] # client_ip[q]
    /\ CountIp(data[r].clicks, client_ip[q]) = 0
    /\ CountIp(data[q].clicks, client_ip[r]) = 0

Holds(clicks, r) == \E i \in 1..Len(clicks) : clicks[i] = click_record(r)

\* C8: a save replaces the whole file with the saver's own copy of the log, so of two
\* requests that each appended without seeing the other's record the persisted log
\* never holds both records: the later save overwrites the earlier append.
C8_LaterSaveOverwrites ==
    \A r, q \in RequestIds :
        Unaware(r, q) => ~(Holds(Records(jsonFile), r) /\ Holds(Records(jsonFile), q))

\* C8 witness: two concurrent requests from two unrecorded IPs have both returned 302,
\* no request is in flight, and the persisted log holds the record of one of them
\* only.
C8_Witness ==
    /\ Unaware(1, 2)
    /\ TrackDone(1) /\ TrackDone(2)
    /\ response[1].status = 302 /\ response[2].status = 302
    /\ Quiescent
    /\ jsonFile.st = "doc"
    /\ jsonFile.clicks = <<click_record(2)>>
    /\ csvFile.st = "rows"


\* ------------------------------------------------------------ the two files
\* the CSV file, its header row left out, has as many rows as the JSON file has
\* records, and its i-th row is (ip, timestamp, user_agent) of the i-th record
Consistent(json, csv) ==
    /\ json.st = "doc"
    /\ csv.st = "rows"
    /\ Len(csv.rows) - 1 = Len(json.clicks)
    /\ \A i \in 1..Len(json.clicks) :
          csv.rows[i + 1] =
             <<json.clicks[i].ip, json.clicks[i].timestamp, json.clicks[i].user_agent>>

\* request r's save_data call returns in this step
SaveReturns(r) == pc[r] = "csv_write" /\ pc'[r] = "done"

\* C3 as stated: whenever a save_data call has completed, the CSV rows match the JSON
\* records in number and position by position.
C3_SaveLeavesFilesEqual ==
    [][\A r \in RequestIds : SaveReturns(r) => Consistent(jsonFile', csvFile')]_vars

\* C3 amended: whenever a save_data call completes that no other save_data call
\* overlapped, the CSV rows match the JSON records in number and position by
\* position.
C3_LoneSaveLeavesFilesEqual ==
    [][\A r \in RequestIds :
          (SaveReturns(r) /\ r \notin overlapped) => Consistent(jsonFile', csvFile')]_vars

\* C3 witness: a save that nothing overlapped has completed on a log of two records,
\* and the files hold them.
C3_Witness ==
    \E r \in RequestIds :
        /\ TrackDone(r) /\ Recorded(r)
        /\ overlapped = {}
        /\ jsonFile = JsonDoc(data[r])
        /\ Len(jsonFile.clicks) = 2
        /\ Len(csvFile.rows) = 3
        /\ Consistent(jsonFile, csvFile)


\* ------------------------------------------------------------------ a crash
\* the rows the CSV file holds under its header; none when the file does not exist
CsvRows(csv) == IF csv.st = "rows" THEN Tail(csv.rows) ELSE <<>>

RowsOf(clicks) ==
    [i \in 1..Len(clicks) |->
        <<clicks[i].ip, clicks[i].timestamp, clicks[i].user_agent>>]

\* the log as request r found it, and as its save was to leave it
LogBefore(r) == Records(before[r].json)
LogAfter(r) ==
    LogBefore(r) \o <<[ip |-> client_ip[r], timestamp |-> timestamp[r],
                        user_agent |-> user_agent[r]]>>

\* the process stopped while request r, the last one taken up, was at position p
StoppedAt(r, p) == r \in killed /\ Latest(r) /\ pc[r] \in p

\* C10 as stated: when the process stops after the JSON file was rewritten and before
\* the CSV file was rewritten, the JSON file holds the full new log, the CSV file
\* still holds the rows of the previous log as a complete document, and the two
\* disagree.
C10_CsvHoldsPreviousLog ==
    \A r \in RequestIds : StoppedAt(r, {"csv_open", "csv_write"}) =>
        /\ jsonFile.st = "doc" /\ jsonFile.clicks = LogAfter(r)
        /\ csvFile.st \in {"rows", "absent"}
        /\ CsvRows(csvFile) = RowsOf(LogBefore(r))
        /\ ~Consistent(jsonFile, csvFile)

\* no request sets out to save, or moves on within save_data, in this step
NoSaveStep ==
    \A r \in RequestIds :
        \/ pc'[r] = pc[r]
        \/ pc[r] \notin {"load", "json_open", "json_write", "csv_open", "csv_write"}
        \/ (pc[r] = "load" /\ pc'[r] = "done")

\* the two files agreed when request r was taken up: neither existed, or the CSV rows
\* matched the JSON records
AgreedBefore(r) ==
    \/ before[r].json.st = "absent" /\ before[r].csv.st = "absent"
    \/ Consistent(before[r].json, before[r].csv)

\* C10 amended: when the process stops after the JSON file was rewritten and before
\* the CSV file was opened for writing, the JSON file holds the full new log and the
\* CSV file is exactly what it was before the request; when the two files agreed
\* before the request, the CSV file is complete (or does not exist yet), holds the
\* rows of the previous log, and disagrees with the JSON file. When it stops after
\* the CSV file was opened and before its rows were flushed, the CSV file is empty.
\* No /track call from an IP the log holds and no view writes either file.
C10_CsvHoldsWhatItHeld ==
    /\ [](\A r \in RequestIds : StoppedAt(r, {"csv_open"}) =>
            /\ jsonFile.st = "doc" /\ jsonFile.clicks = LogAfter(r)
            /\ csvFile = before[r].csv
            /\ AgreedBefore(r) =>
                  /\ csvFile.st \in {"rows", "absent"}
                  /\ CsvRows(csvFile) = RowsOf(LogBefore(r))
                  /\ ~Consistent(jsonFile, csvFile))
    /\ [](\A r \in RequestIds : StoppedAt(r, {"csv_write"}) =>
            /\ jsonFile.st = "doc" /\ jsonFile.clicks = LogAfter(r)
            /\ csvFile = [st |-> "empty", rows |-> <<>>])
    /\ [][NoSaveStep => (jsonFile' = jsonFile /\ csvFile' = csvFile)]_vars
    /\ [][\A r \in RequestIds :
            (pc[r] = "load" /\ pc'[r] = "json_open") =>
                CountIp(Records(jsonFile), client_ip[r]) = 0]_vars

\* C10 witness: the process stopped between the two writes of the second request's
\* save, and a third request, from a recorded IP, and the views that followed found
\* and left the JSON file with two records and the CSV file with one row.
C10_Witness ==
    /\ 2 \in killed /\ pc[2] = "csv_open"
    /\ TrackDone(1) /\ TrackDone(3)
    /\ client_ip[3] = client_ip[1]
    /\ Len(Records(jsonFile)) = 2
    /\ Len(CsvRows(csvFile)) = 1
    /\ before[3].json = jsonFile /\ before[3].csv = csvFile


\* ------------------------------------------------------- any store contents
OneClick == [ip |-> <<"1">>, timestamp |-> 0, user_agent |-> "curl/8.0"]

StoreContents ==
    { AbsentFile,
      [st |-> "empty", clicks |-> <<>>],
      [st |-> "garbage", clicks |-> <<>>],
      [st |-> "foreign", clicks |-> <<>>],
      [st |-> "undecodable", clicks |-> <<>>],
      [st |-> "doc", clicks |-> <<OneClick>>] }

\* the JSON file holds anything at all when the requests arrive
InitAnyStore ==
    \E json \in StoreContents :
        InitWith(json, IF json.st = "doc" THEN CsvDoc(json) ELSE AbsentCsv)

SpecAnyStore == InitAnyStore /\ [][SeqNext]_vars

Done(r) == pc[r] = "done" /\ r \notin killed

\* the handler took the store for empty and completed normally
ServedAsEmpty(r) ==
    CASE request[r].path = "/track" ->
           /\ response[r].status = 302
           /\ data[r].clicks = <<click_record(r)>>
      [] request[r].path \in {"/stats", "/api/stats"} ->
           /\ response[r].status = 200
           /\ response[r].clicks = <<>>
      [] OTHER -> response[r].status = 200

====
